---- MODULE Spec2Model ----
(***************************************************************************)
(* A model of a10.py: the pattern/action query system over Wikipedia       *)
(* infoboxes.  The dispatcher (search_pa_list), the actions, the fact      *)
(* resolvers, clean_text and query_loop are modelled from a10.py; match    *)
(* (imported from match.py) is modelled from its written contract.         *)
(*                                                                         *)
(* A Python call either returns a value or raises: an outcome is a record  *)
(* [kind |-> "return", val |-> v] or [kind |-> "raise", exc |-> e,         *)
(* msg |-> m].  Text is a sequence of symbols (a word, a space, a comma,   *)
(* a newline, ...); Flat turns it into a string.                           *)
(***************************************************************************)
EXTENDS Integers, Sequences, FiniteSets, TLC

VARIABLES
    pc,         \* query_loop's position: start, input, search, print, farewell, done, crashed
    line,       \* the raw line input() returned last (its whitespace-separated pieces)
    query,      \* the tokens handed to search_pa_list
    world,      \* what Wikipedia answers for the subject of this query
    run,        \* the record of the last search_pa_list call (see search_pa_list)
    reads,      \* calls of input() so far
    shown,      \* answer lines printed since the last input()
    farewells,  \* times "So long!" was printed
    signal,     \* the exception caught by query_loop's except clause, or "none"
    crash,      \* the exception that left query_loop unhandled, or "none"
    fnIn,       \* argument of the function applied (function specifications)
    fnOut,      \* its result
    fnOut2,     \* the result of applying it to its own result
    fnPc        \* steps taken by a function specification

vars == <<pc, line, query, world, run, reads, shown, farewells, signal, crash,
          fnIn, fnOut, fnOut2, fnPc>>
loopVars == <<pc, line, query, world, run, reads, shown, farewells, signal, crash>>
fnVars == <<fnIn, fnOut, fnOut2, fnPc>>

(***************************************************************************)
(* Bounds.                                                                 *)
(***************************************************************************)
MaxQueries == 2   \* lines read in one session
MaxCapture == 2   \* tokens a wildcard absorbs in the enumerated queries
MaxText == 5      \* symbols of a text given to clean_text
MaxPlace == 6     \* symbols of a captured birthplace

(***************************************************************************)
(* Outcomes of a call.                                                     *)
(***************************************************************************)
Return(v) == [kind |-> "return", val |-> v, exc |-> "none", msg |-> ""]
Raise(e, m) == [kind |-> "raise", val |-> <<>>, exc |-> e, msg |-> m]

(***************************************************************************)
(* Tokens.  str.lower() and str.replace("?", "") on the pieces of a line.  *)
(***************************************************************************)
Subjects == {"mars", "abraham", "lincoln"}
Words == {"when", "was", "born", "what", "is", "the", "polar", "radius", "of",
          "population", "official", "language", "where", "bye", "meaning", "life"}
          \cup Subjects
Capital == ("when" :> "When") @@ ("what" :> "What") @@ ("where" :> "Where")
           @@ ("bye" :> "Bye") @@ ("born" :> "BORN") @@ ("mars" :> "Mars")
           @@ ("abraham" :> "Abraham") @@ ("lincoln" :> "Lincoln")
Cap(w) == IF w \in DOMAIN Capital THEN Capital[w] ELSE w

lower(t) ==
    IF \E w \in DOMAIN Capital : Capital[w] = t
    THEN CHOOSE w \in DOMAIN Capital : Capital[w] = t
    ELSE t

Pieces == Words \cup {Capital[w] : w \in DOMAIN Capital}
replace_qmark(t) ==
    IF t = "?" THEN ""
    ELSE IF \E w \in Pieces : w \o "?" = t
    THEN CHOOSE w \in Pieces : w \o "?" = t
    ELSE t

RECURSIVE split(_)
split(ps) ==
    IF ps = <<>> THEN <<>>
    ELSE IF Head(ps) = "" THEN split(Tail(ps))
    ELSE <<Head(ps)>> \o split(Tail(ps))

\* input("Your query? ").replace("?", "").lower().split()
Tokenize(ln) == split([k \in 1..Len(ln) |-> lower(replace_qmark(ln[k]))])

(***************************************************************************)
(* match(pattern, source), from its contract: literal tokens compare       *)
(* case-insensitively, the one wildcard "%" absorbs the tokens between the  *)
(* fixed parts.  The result is None or the captured tokens.                *)
(***************************************************************************)
None == [none |-> TRUE, cap |-> <<>>]
Captured(c) == [none |-> FALSE, cap |-> c]

SameTokens(p, s) ==
    /\ Len(p) = Len(s)
    /\ \A k \in 1..Len(p) : lower(p[k]) = lower(s[k])

\* A slip: the wildcard must absorb at least one token.
RECURSIVE match_one_or_more(_, _)
match_one_or_more(pattern, source) ==
    IF pattern = <<>>
    THEN IF source = <<>> THEN Captured(<<>>) ELSE None
    ELSE IF Head(pattern) = "%"
    THEN LET rest == Tail(pattern)
             n == Len(source) - Len(rest)
         IN IF n < 1 THEN None
            ELSE IF SameTokens(rest, SubSeq(source, n + 1, Len(source)))
            THEN Captured(SubSeq(source, 1, n))
            ELSE None
    ELSE IF source = <<>> THEN None
    ELSE IF lower(Head(pattern)) = lower(Head(source))
    THEN match_one_or_more(Tail(pattern), Tail(source))
    ELSE None

RECURSIVE match(_, _)
match(pattern, source) ==
    IF pattern = <<>>
    THEN IF source = <<>> THEN Captured(<<>>) ELSE None
    ELSE IF Head(pattern) = "%"
    THEN LET rest == Tail(pattern)
             n == Len(source) - Len(rest)
         IN IF n < 0 THEN None
            ELSE IF SameTokens(rest, SubSeq(source, n + 1, Len(source)))
            THEN Captured(SubSeq(source, 1, n))
            ELSE None
    ELSE IF source = <<>> THEN None
    ELSE IF lower(Head(pattern)) = lower(Head(source))
    THEN match(Tail(pattern), Tail(source))
    ELSE None

(***************************************************************************)
(* Text: sequences of symbols.                                             *)
(***************************************************************************)
RECURSIVE Flat(_)
Flat(t) == IF t = <<>> THEN "" ELSE Head(t) \o Flat(Tail(t))

\* " ".join(matches)
RECURSIVE join(_)
join(ts) ==
    IF ts = <<>> THEN ""
    ELSE IF Len(ts) = 1 THEN ts[1]
    ELSE ts[1] \o " " \o join(Tail(ts))

SP == " "
NL == "\n"
TAB == "\t"
COMMA == ","
NUL == "\\x00"                 \* a character outside string.printable
Whitespace == {SP, NL, TAB}

\* char in string.printable
printable(c) == c # NUL

\* re.sub(c + "+", c, t): every maximal run of c becomes one c
RECURSIVE sub_runs(_, _)
sub_runs(c, t) ==
    IF Len(t) < 2 THEN t
    ELSE IF t[1] = c /\ t[2] = c THEN sub_runs(c, Tail(t))
    ELSE <<t[1]>> \o sub_runs(c, Tail(t))

\* A slip: the non-printable characters are replaced after the runs are collapsed.
clean_text_ascii_last(text) ==
    LET no_dup_spaces == sub_runs(SP, text)
        no_dup_newlines == sub_runs(NL, no_dup_spaces)
    IN [k \in 1..Len(no_dup_newlines) |->
           IF printable(no_dup_newlines[k]) THEN no_dup_newlines[k] ELSE SP]

clean_text(text) ==
    LET only_ascii == [k \in 1..Len(text) |->
                          IF printable(text[k]) THEN text[k] ELSE SP]
        no_dup_spaces == sub_runs(SP, only_ascii)
        no_dup_newlines == sub_runs(NL, no_dup_spaces)
    IN no_dup_newlines

\* str.strip()
RECURSIVE lstrip(_)
lstrip(t) == IF t # <<>> /\ Head(t) \in Whitespace THEN lstrip(Tail(t)) ELSE t
RECURSIVE rstrip(_)
rstrip(t) ==
    IF t # <<>> /\ t[Len(t)] \in Whitespace
    THEN rstrip(SubSeq(t, 1, Len(t) - 1)) ELSE t
strip(t) == rstrip(lstrip(t))

\* The field labels of the re.split lookahead (a label is one symbol).
Labels == {"Died", "Occupation"}

\* re.split(r"(?=Died|...)", t)[0]: the text before the first label
RECURSIVE first_piece(_)
first_piece(t) ==
    IF t = <<>> THEN <<>>
    ELSE IF Head(t) \in Labels THEN <<>>
    ELSE <<Head(t)>> \o first_piece(Tail(t))

\* str.split(','): a list of one more piece than there are commas
RECURSIVE split_comma(_)
split_comma(t) ==
    IF \A k \in 1..Len(t) : t[k] # COMMA THEN <<t>>
    ELSE LET k == CHOOSE i \in 1..Len(t) :
                      t[i] = COMMA /\ \A j \in 1..(i - 1) : t[j] # COMMA
         IN <<SubSeq(t, 1, k - 1)>> \o split_comma(SubSeq(t, k + 1, Len(t)))

\* A slip: the last two parts instead of the first two.
birth_place_of_last_two(group) ==
    LET stripped == strip(group)
        birthplace == strip(first_piece(stripped))
        pieces == split_comma(birthplace)
        parts == [k \in 1..Len(pieces) |-> strip(pieces[k])]
    IN IF Len(parts) >= 2
       THEN parts[Len(parts) - 1] \o <<COMMA, SP>> \o parts[Len(parts)]
       ELSE birthplace

\* get_birth_place, from the captured group on (lines 154-163)
birth_place_of(group) ==
    LET stripped == strip(group)
        birthplace == strip(first_piece(stripped))
        pieces == split_comma(birthplace)
        parts == [k \in 1..Len(pieces) |-> strip(pieces[k])]
    IN IF Len(parts) >= 2
       THEN parts[1] \o <<COMMA, SP>> \o parts[2]
       ELSE birthplace

(***************************************************************************)
(* The world: what Wikipedia holds for the subject searched.  page says    *)
(* whether wikipedia.search finds a page and whether it has an infobox;    *)
(* hits is the set of extraction patterns that match the cleaned infobox   *)
(* text; place is the text the birthplace group captures there.            *)
(***************************************************************************)
Patterns == {"radius", "population", "language", "birthplace"}
Places == { <<"Springfield", COMMA, SP, "Illinois", COMMA, SP, "U.S.">>,
            <<"Hodgenville", COMMA, NL, "Kentucky", SP, "Died", SP, "April">> }
Worlds ==
    { [page |-> p, hits |-> {}, place |-> <<>>] : p \in {"missing", "noinfobox"} }
    \cup { [page |-> "ok", hits |-> h, place |-> pl] :
              h \in SUBSET Patterns, pl \in Places }

\* get_page_html (lines 20-21): results[0] of an empty search result
get_page_html(title, w) ==
    IF w.page = "missing"
    THEN Raise("IndexError", "list index out of range")
    ELSE Return(w)

\* get_first_infobox_text (lines 33-38)
get_first_infobox_text(html) ==
    IF html.page = "noinfobox"
    THEN Raise("LookupError", "Page has no infobox")
    ELSE Return(html)

\* clean_text(get_first_infobox_text(get_page_html(name)))
infobox_text(name, w) ==
    LET html == get_page_html(name, w)
    IN IF html.kind = "raise" THEN html
       ELSE get_first_infobox_text(html.val)

\* What a named group of a pattern captures in the text.
GroupText(text, g) ==
    CASE g = "radius" -> "3,376.2"
      [] g = "population" -> "1,234,567"
      [] g = "birthplace" -> text.place

\* The extraction patterns: the named groups each defines.
RadiusPattern == [id |-> "radius", groups |-> {"radius"}]
PopulationPattern == [id |-> "population", groups |-> {"population"}]
LanguagePattern == [id |-> "language", groups |-> {"population"}]
BirthplacePattern == [id |-> "birthplace", groups |-> {"birthplace"}]

\* A slip: the "if not match" test is lost, so a miss raises nothing.
get_match_no_raise(text, pattern, error_text) ==
    Return([g \in pattern.groups |-> GroupText(text, g)])

\* get_match (lines 71-76): the match object maps group names to text
get_match(text, pattern, error_text) ==
    IF pattern.id \notin text.hits
    THEN Raise("AttributeError", error_text)
    ELSE Return([g \in pattern.groups |-> GroupText(text, g)])

\* Match.group(name)
group(m, name) ==
    IF name \in DOMAIN m THEN Return(m[name])
    ELSE Raise("IndexError", "no such group")

(***************************************************************************)
(* The fact resolvers.  Each yields its outcome and how often it fetched   *)
(* a page and searched a pattern.                                          *)
(***************************************************************************)
Resolved(o, f, x) == [out |-> o, fetched |-> f, searched |-> x]

\* The common shape of the resolvers: fetch, search the pattern, finish.
Pipeline(name, w, pattern, error_text, groupname) ==
    LET box == infobox_text(name, w)
    IN IF box.kind = "raise" THEN Resolved(box, 1, 0)
       ELSE LET m == get_match(box.val, pattern, error_text)
            IN IF m.kind = "raise" THEN Resolved(m, 1, 1)
               ELSE Resolved(group(m.val, groupname), 1, 1)

get_polar_radius(planet_name, w) ==
    Pipeline(planet_name, w, RadiusPattern,
             "Page infobox has no polar radius information", "radius")

get_population(location_name, w) ==
    Pipeline(location_name, w, PopulationPattern,
             "Page infobox has no population information", "population")

\* A slip the other way: the group the pattern does define.
get_official_language_population(country_name, w) ==
    Pipeline(country_name, w, LanguagePattern,
             "Page infobox has no official language information", "population")

get_official_language(country_name, w) ==
    Pipeline(country_name, w, LanguagePattern,
             "Page infobox has no official language information", "languages")

get_birth_place(person_name, w) ==
    LET r == Pipeline(person_name, w, BirthplacePattern,
                      "Page infobox has no birthplace information", "birthplace")
    IN IF r.out.kind = "raise" THEN r
       ELSE Resolved(Return(Flat(birth_place_of(r.out.val))), r.fetched, r.searched)

(***************************************************************************)
(* The actions.  Each yields its outcome, the resolver's counts, whether   *)
(* it called a resolver and with which subject name.                       *)
(***************************************************************************)
Acted(o, f, x, c, n) ==
    [out |-> o, fetched |-> f, searched |-> x, called |-> c, subject |-> n]
Calling(r, n) == Acted(r.out, r.fetched, r.searched, TRUE, n)

\* The names a10.py binds at module level (imports and definitions).
ModuleNames ==
    {"re", "string", "calendar", "WikipediaPage", "wikipedia", "BeautifulSoup",
     "word_tokenize", "pos_tag", "ne_chunk", "Tree", "match", "List", "Callable",
     "Tuple", "Any", "Match", "get_page_html", "get_first_infobox_text",
     "clean_text", "get_match", "get_polar_radius", "get_population",
     "get_official_language", "get_birth_place", "birth_date", "polar_radius",
     "population", "official_language", "birth_place", "bye_action", "Pattern",
     "Action", "pa_list", "search_pa_list", "query_loop"}

\* [resolver(name)]: the fact as a one-element list
ListOf(r, n) ==
    Calling(IF r.out.kind = "raise" THEN r
            ELSE Resolved(Return(<<r.out.val>>), r.fetched, r.searched), n)

\* Evaluating a global name: the callee of a call is evaluated before its arguments.
lookup(name) ==
    IF name \in ModuleNames THEN Return(name)
    ELSE Raise("NameError", "name '" \o name \o "' is not defined")

\* A slip: the action calls the resolver that exists.
birth_date_by_place(matches, w) ==
    ListOf(get_birth_place(join(matches), w), join(matches))

\* birth_date (line 180): get_birth_date(" ".join(matches))
birth_date(matches, w) ==
    LET f == lookup("get_birth_date")
    IN IF f.kind = "raise" THEN Acted(f, 0, 0, FALSE, "")
       ELSE Acted(Raise("TypeError", "no model of get_birth_date"), 0, 0,
                  TRUE, join(matches))

\* A slip: the whole capture, as the other actions pass it.
polar_radius_joined(matches, w) ==
    ListOf(get_polar_radius(join(matches), w), join(matches))

\* polar_radius (line 192): get_polar_radius(matches[0])
polar_radius(matches, w) ==
    IF Len(matches) = 0
    THEN Acted(Raise("IndexError", "list index out of range"), 0, 0, FALSE, "")
    ELSE ListOf(get_polar_radius(matches[1], w), matches[1])

\* population (line 203)
population(matches, w) ==
    ListOf(get_population(join(matches), w), join(matches))

\* official_language (line 214)
official_language(matches, w) ==
    ListOf(get_official_language(join(matches), w), join(matches))

\* birth_place (line 225)
birth_place(matches, w) ==
    ListOf(get_birth_place(join(matches), w), join(matches))

\* bye_action (line 229)
bye_action(dummy, w) ==
    Acted(Raise("KeyboardInterrupt", ""), 0, 0, FALSE, "")

\* pa_list (lines 239-246)
pa_list ==
    << [pat |-> <<"when", "was", "%", "born">>, act |-> "birth_date"],
       [pat |-> <<"what", "is", "the", "polar", "radius", "of", "%">>,
        act |-> "polar_radius"],
       [pat |-> <<"what", "is", "the", "population", "of", "%">>,
        act |-> "population"],
       [pat |-> <<"what", "is", "the", "official", "language", "of", "%">>,
        act |-> "official_language"],
       [pat |-> <<"where", "was", "%", "born">>, act |-> "birth_place"],
       [pat |-> <<"bye">>, act |-> "bye_action"] >>

\* act(mat): calling the function an entry of pa_list holds
Call(act, mat, w) ==
    CASE act = "birth_date" -> birth_date(mat, w)
      [] act = "polar_radius" -> polar_radius(mat, w)
      [] act = "population" -> population(mat, w)
      [] act = "official_language" -> official_language(mat, w)
      [] act = "birth_place" -> birth_place(mat, w)
      [] act = "bye_action" -> bye_action(mat, w)

(***************************************************************************)
(* search_pa_list (lines 261-267).  The record it yields: out, the         *)
(* outcome of the call; tried, the entries match was called on, in order;  *)
(* invoked, the entries whose action was called; cap, the capture given;   *)
(* act, the action's own record.                                           *)
(***************************************************************************)
NoAction == Acted(Return(<<>>), 0, 0, FALSE, "")

\* A slip: "if mat:", which an empty capture fails.
is_truthy(mat) == ~mat.none /\ mat.cap # <<>>

\* if mat is not None
is_not_None(mat) == ~mat.none

\* answer if answer else ["No answers"]
answer_or_none(answer) == IF answer # <<>> THEN answer ELSE <<"No answers">>

\* A slip: the loop does not stop at a match, so the last match wins.
RECURSIVE scan_last(_, _, _, _)
scan_last(i, src, w, tried) ==
    IF i > Len(pa_list)
    THEN [out |-> Return(<<"I don't understand">>), tried |-> tried,
          invoked |-> <<>>, cap |-> <<>>, act |-> NoAction]
    ELSE LET mat == match(pa_list[i].pat, src)
             later == scan_last(i + 1, src, w, Append(tried, i))
         IN IF ~mat.none /\ later.invoked = <<>>
            THEN LET a == Call(pa_list[i].act, mat.cap, w)
                 IN [out |-> IF a.out.kind = "raise" THEN a.out
                             ELSE Return(IF a.out.val # <<>> THEN a.out.val
                                         ELSE <<"No answers">>),
                     tried |-> later.tried, invoked |-> <<i>>,
                     cap |-> mat.cap, act |-> a]
            ELSE later

RECURSIVE scan(_, _, _, _)
scan(i, src, w, tried) ==
    IF i > Len(pa_list)
    THEN [out |-> Return(<<"I don't understand">>), tried |-> tried,
          invoked |-> <<>>, cap |-> <<>>, act |-> NoAction]
    ELSE LET mat == match(pa_list[i].pat, src)
         IN IF is_not_None(mat)
            THEN LET a == Call(pa_list[i].act, mat.cap, w)
                 IN [out |-> IF a.out.kind = "raise" THEN a.out
                             ELSE Return(answer_or_none(a.out.val)),
                     tried |-> Append(tried, i), invoked |-> <<i>>,
                     cap |-> mat.cap, act |-> a]
            ELSE scan(i + 1, src, w, Append(tried, i))

search_pa_list(src, w) == scan(1, src, w, <<>>)

(***************************************************************************)
(* The lines a user types: the templates with the wildcard filled by up to *)
(* MaxCapture subject tokens, the same with the first or last token        *)
(* dropped, and some that match nothing; typed plainly, capitalised or     *)
(* with a question mark.                                                   *)
(***************************************************************************)
RECURSIVE SeqsUpTo(_, _)
SeqsUpTo(S, n) ==
    IF n = 0 THEN {<<>>}
    ELSE LET shorter == SeqsUpTo(S, n - 1)
         IN shorter \cup {Append(t, x) : t \in shorter, x \in S}

RECURSIVE Fill(_, _)
Fill(pat, mid) ==
    IF pat = <<>> THEN <<>>
    ELSE IF Head(pat) = "%" THEN mid \o Fill(Tail(pat), mid)
    ELSE <<Head(pat)>> \o Fill(Tail(pat), mid)

Filled == {Fill(pa_list[i].pat, mid) :
              i \in 1..Len(pa_list), mid \in SeqsUpTo(Subjects, MaxCapture)}
Queries ==
    Filled
    \cup {Tail(q) : q \in Filled}
    \cup {SubSeq(q, 1, Len(q) - 1) : q \in Filled}
    \cup { <<"what", "is", "the", "meaning", "of", "life">>, <<"bye", "bye">>,
           <<"when", "born">>, <<"born">> }

Typings == {"plain", "capitals", "question", "spaced question"}
Typed(q, how) ==
    CASE how = "plain" -> q
      [] how = "capitals" -> [k \in 1..Len(q) |-> Cap(q[k])]
      [] how = "question" ->
            [k \in 1..Len(q) |-> IF k = Len(q) THEN q[k] \o "?" ELSE q[k]]
      [] how = "spaced question" -> Append(q, "?")
Lines == {Typed(q, how) : q \in Queries, how \in Typings}

(***************************************************************************)
(* query_loop (lines 273-285).                                             *)
(***************************************************************************)
NoRun == [out |-> [kind |-> "none", val |-> <<>>, exc |-> "none", msg |-> ""],
          tried |-> <<>>, invoked |-> <<>>, cap |-> <<>>, act |-> NoAction]
NoWorld == [page |-> "missing", hits |-> {}, place |-> <<>>]

\* A slip: except EOFError alone.
CaughtEndOfInput(exc) == exc = "EOFError"

\* except (KeyboardInterrupt, EOFError)
Caught(exc) == exc \in {"KeyboardInterrupt", "EOFError"}

Init ==
    /\ pc = "start"
    /\ line = <<>>
    /\ query = <<>>
    /\ world = NoWorld
    /\ run = NoRun
    /\ reads = 0
    /\ shown = 0
    /\ farewells = 0
    /\ signal = "none"
    /\ crash = "none"
    /\ fnIn = <<>>
    /\ fnOut = <<>>
    /\ fnOut2 = <<>>
    /\ fnPc = 0

\* print("Welcome to the random database!\n")
Welcome ==
    /\ pc = "start"
    /\ pc' = "input"
    /\ UNCHANGED <<line, query, world, run, reads, shown, farewells, signal, crash>>
    /\ UNCHANGED fnVars

\* query = input("Your query? ").replace("?", "").lower().split()
Input ==
    /\ pc = "input"
    /\ reads < MaxQueries
    /\ \E ln \in Lines :
          /\ line' = ln
          /\ query' = Tokenize(ln)
    /\ reads' = reads + 1
    /\ shown' = 0
    /\ run' = NoRun
    /\ world' = NoWorld
    /\ pc' = "search"
    /\ UNCHANGED <<farewells, signal, crash>>
    /\ UNCHANGED fnVars

\* input() raises: Ctrl-C or Ctrl-D while reading
InputInterrupted ==
    /\ pc = "input"
    /\ \E exc \in {"KeyboardInterrupt", "EOFError"} :
          IF Caught(exc)
          THEN signal' = exc /\ pc' = "farewell" /\ crash' = crash
          ELSE crash' = exc /\ pc' = "crashed" /\ signal' = signal
    /\ reads' = reads + 1
    /\ shown' = 0
    /\ run' = NoRun
    /\ world' = NoWorld
    /\ UNCHANGED <<line, query, farewells>>
    /\ UNCHANGED fnVars

\* answers = search_pa_list(query)
Search ==
    /\ pc = "search"
    /\ \E w \in Worlds :
          /\ world' = w
          /\ run' = search_pa_list(query, w)
    /\ IF run'.out.kind = "return"
       THEN pc' = "print" /\ signal' = signal /\ crash' = crash
       ELSE IF Caught(run'.out.exc)
       THEN signal' = run'.out.exc /\ pc' = "farewell" /\ crash' = crash
       ELSE crash' = run'.out.exc /\ pc' = "crashed" /\ signal' = signal
    /\ UNCHANGED <<line, query, reads, shown, farewells>>
    /\ UNCHANGED fnVars

\* for ans in answers: print(ans)
PrintAnswers ==
    /\ pc = "print"
    /\ shown' = shown + Len(run.out.val)
    /\ pc' = "input"
    \* the iteration is over: its line, query and answers are dead
    /\ line' = <<>>
    /\ query' = <<>>
    /\ world' = NoWorld
    /\ run' = NoRun
    /\ UNCHANGED <<reads, farewells, signal, crash>>
    /\ UNCHANGED fnVars

\* break, then print("\nSo long!\n")
Farewell ==
    /\ pc = "farewell"
    /\ farewells' = farewells + 1
    /\ pc' = "done"
    /\ UNCHANGED <<line, query, world, run, reads, shown, signal, crash>>
    /\ UNCHANGED fnVars

Next == Welcome \/ Input \/ InputInterrupted \/ Search \/ PrintAnswers \/ Farewell

Spec == Init /\ [][Next]_vars

\* The statement after the loop runs once the loop is left.
SpecFair == Spec /\ WF_vars(Farewell)

(***************************************************************************)
(* Properties of the dispatcher and the query loop, under Spec.            *)
(***************************************************************************)
\* search_pa_list was called in this iteration of the loop
Searched == run.tried # <<>>
\* the entries of pa_list whose template matches q
Matching(q) == {i \in 1..Len(pa_list) : ~match(pa_list[i].pat, q).none}
Lowest(S) == CHOOSE i \in S : \A j \in S : i <= j
UpTo(n) == [k \in 1..n |-> k]
DontUnderstand == Return(<<"I don't understand">>)
NoAnswers == Return(<<"No answers">>)

\* C1: search_pa_list tries the entries in table order up to the first whose
\* template matches, calls that entry's action once and no other action, and
\* tries no entry after it; when none matches it tries them all and calls none.
C1_FirstMatchWins ==
    Searched =>
        IF Matching(query) = {}
        THEN run.invoked = <<>> /\ run.tried = UpTo(Len(pa_list))
        ELSE /\ run.invoked = <<Lowest(Matching(query))>>
             /\ run.tried = UpTo(Lowest(Matching(query)))

C1_Witness ==
    /\ Searched
    /\ run.invoked = <<2>>
    /\ run.tried = <<1, 2>>
    /\ Len(run.cap) = 2

\* C2: ["I don't understand"] is returned exactly when no template matches,
\* and then no action was called; ["No answers"] is returned only after an
\* action was called, and always when the called action returned an empty list.
C2_EmptyVersusNoMatch ==
    Searched =>
        /\ (Matching(query) = {} => run.out = DontUnderstand)
        /\ (run.out = DontUnderstand => run.invoked = <<>> /\ Matching(query) = {})
        /\ (run.invoked # <<>> /\ run.act.out = Return(<<>>) => run.out = NoAnswers)
        /\ (run.out = NoAnswers => run.invoked # <<>> /\ Matching(query) # {})

C2_Witness ==
    /\ Searched
    /\ query = <<"what", "is", "the", "meaning", "of", "life">>
    /\ run.out = DontUnderstand
    /\ run.invoked = <<>>
    /\ pc = "print"

\* C3 (under SpecFair): a termination signal ("bye", or Ctrl-C / Ctrl-D at the prompt) is caught
\* by the loop: it never leaves query_loop as an unhandled error, no answer was
\* produced or printed for that query, nothing is read or printed afterwards,
\* and the farewell is then printed, exactly once.
C3_State ==
    /\ ~Caught(crash)
    /\ (Searched /\ Matching(query) = {6} => signal = "KeyboardInterrupt")
    /\ (signal # "none" =>
            /\ pc \in {"farewell", "done"}
            /\ shown = 0
            /\ run.out.kind # "return")
    /\ farewells = (IF pc = "done" THEN 1 ELSE 0)
    /\ (pc = "done" => signal # "none")
C3_Step ==
    signal # "none" => reads' = reads /\ shown' = shown /\ signal' = signal
C3_Termination ==
    /\ []C3_State
    /\ [][C3_Step]_vars
    /\ (signal # "none" ~> (pc = "done" /\ farewells = 1))

C3_Witness ==
    /\ pc = "done"
    /\ query = <<"bye">>
    /\ signal = "KeyboardInterrupt"
    /\ farewells = 1
    /\ reads = 2

\* C6: when a resolver was called and the page is missing, has no infobox, or
\* the resolver's pattern misses, the query ends in an error that carries
\* the diagnostic of the failing step; no answer list is returned or printed;
\* the page is fetched once and the pattern searched at most once.
PatternOf(i) ==
    CASE i = 2 -> "radius" [] i = 3 -> "population"
      [] i = 4 -> "language" [] i = 5 -> "birthplace"
MissText(i) ==
    CASE i = 2 -> "Page infobox has no polar radius information"
      [] i = 3 -> "Page infobox has no population information"
      [] i = 4 -> "Page infobox has no official language information"
      [] i = 5 -> "Page infobox has no birthplace information"
LoopIdle ==
    /\ pc = "start"
    /\ line = <<>>
    /\ query = <<>>
    /\ world = NoWorld
    /\ run = NoRun
    /\ reads = 0
    /\ shown = 0
    /\ farewells = 0
    /\ signal = "none"
    /\ crash = "none"

\* match, on the templates of pa_list and the lines as typed
InitMatch ==
    /\ LoopIdle
    /\ fnIn \in {[pat |-> pa_list[i].pat, src |-> ln] :
                    i \in 1..Len(pa_list), ln \in Lines}
    /\ fnOut = None
    /\ fnOut2 = <<>>
    /\ fnPc = 0
Match ==
    /\ fnPc = 0
    /\ fnOut' = match(fnIn.pat, fnIn.src)
    /\ fnPc' = 1
    /\ UNCHANGED <<fnIn, fnOut2>>
    /\ UNCHANGED loopVars
SpecMatch == InitMatch /\ [][Match]_vars

\* clean_text, on every text of up to MaxText characters
Chars == {"a", SP, NL, TAB, NUL}
InitClean ==
    /\ LoopIdle
    /\ fnIn \in SeqsUpTo(Chars, MaxText)
    /\ fnOut = <<>>
    /\ fnOut2 = <<>>
    /\ fnPc = 0
Clean ==
    /\ fnPc = 0
    /\ fnOut' = clean_text(fnIn)
    /\ fnPc' = 1
    /\ UNCHANGED <<fnIn, fnOut2>>
    /\ UNCHANGED loopVars
CleanAgain ==
    /\ fnPc = 1
    /\ fnOut2' = clean_text(fnOut)
    /\ fnPc' = 2
    /\ UNCHANGED <<fnIn, fnOut>>
    /\ UNCHANGED loopVars
NextClean == Clean \/ CleanAgain
SpecClean == InitClean /\ [][NextClean]_vars

\* The texts the birthplace group can capture (line 144):
\* [A-Z][^\n,]*? then one or more of ,\s*[A-Za-z .&'-]+
PlaceSymbols == {"Springfield", "Illinois", SP, COMMA, NL, "Died"}
IsLetters(c) == c \notin {SP, COMMA, NL, TAB, NUL}
IsCapture(t) ==
    LET parts == split_comma(t)
    IN /\ Len(parts) >= 2
       /\ parts[1] # <<>>
       /\ IsLetters(parts[1][1])
       /\ \A k \in 1..Len(parts[1]) : parts[1][k] # NL
       /\ \A n \in 2..Len(parts) :
             /\ parts[n] # <<>>
             /\ parts[n][Len(parts[n])] # NL
             /\ \A k \in 1..Len(parts[n]) :
                   parts[n][k] = NL =>
                       \A j \in 1..k : parts[n][j] \in Whitespace
Captures == {t \in SeqsUpTo(PlaceSymbols, MaxPlace) : IsCapture(t)}

InitPlace ==
    /\ LoopIdle
    /\ fnIn \in Captures
    /\ fnOut = <<>>
    /\ fnOut2 = <<>>
    /\ fnPc = 0
Place ==
    /\ fnPc = 0
    /\ fnOut' = birth_place_of(fnIn)
    /\ fnPc' = 1
    /\ UNCHANGED <<fnIn, fnOut2>>
    /\ UNCHANGED loopVars
SpecPlace == InitPlace /\ [][Place]_vars

(***************************************************************************)
(* Properties of the functions.                                            *)
(***************************************************************************)
\* C4 (under SpecMatch): with no wildcard in the template, match succeeds
\* exactly when the query's tokens equal the template's, case ignored, and
\* captures nothing; with a wildcard at position i it succeeds exactly when
\* the query begins with the tokens before i and ends with the tokens after
\* i, captures the tokens in between (none, possibly), and fails whenever
\* the query is shorter than the fixed parts together.
WildcardAt(p) == {k \in 1..Len(p) : p[k] = "%"}
C4_MatchContract ==
    fnPc = 1 =>
        LET p == fnIn.pat
            s == fnIn.src
        IN IF WildcardAt(p) = {}
           THEN /\ fnOut.none <=> ~SameTokens(p, s)
                /\ fnOut.cap = <<>>
           ELSE LET i == CHOOSE k \in WildcardAt(p) : TRUE
                    before == SubSeq(p, 1, i - 1)
                    after == SubSeq(p, i + 1, Len(p))
                    room == Len(s) - Len(before) - Len(after)
                    fits == /\ room >= 0
                            /\ SameTokens(before, SubSeq(s, 1, Len(before)))
                            /\ SameTokens(after,
                                          SubSeq(s, Len(s) - Len(after) + 1, Len(s)))
                IN /\ fnOut.none <=> ~fits
                   /\ fits => fnOut.cap = SubSeq(s, Len(before) + 1,
                                                 Len(before) + room)
                   /\ room < 0 => fnOut.none

C4_Witness ==
    /\ fnPc = 1
    /\ fnIn.pat = <<"when", "was", "%", "born">>
    /\ fnIn.src = <<"When", "was", "Abraham", "Lincoln", "BORN">>
    /\ fnOut = Captured(<<"Abraham", "Lincoln">>)

\* C5 (under SpecClean): cleaning a cleaned text changes nothing; a cleaned
\* text has no non-printable character, no two spaces in a row and no two
\* newlines in a row.
NoRunOf(c, t) == \A k \in 1..(Len(t) - 1) : ~(t[k] = c /\ t[k + 1] = c)
C5_CleanIdempotent ==
    /\ fnPc >= 1 =>
          /\ \A k \in 1..Len(fnOut) : printable(fnOut[k])
          /\ NoRunOf(SP, fnOut)
          /\ NoRunOf(NL, fnOut)
    /\ fnPc = 2 => fnOut2 = fnOut

C5_Witness ==
    /\ fnPc = 2
    /\ fnIn = <<SP, NUL, NL, NL, SP>>
    /\ fnOut = <<SP, NL, SP>>
    /\ fnOut2 = fnOut

\* C7 (under SpecPlace): the result for a captured birthplace is the text
\* before the first field label, trimmed, cut down to its first two
\* comma-delimited components, each trimmed and joined by ", "; with no
\* comma left it is that trimmed text itself.
BeforeLabel(t) ==
    LET at == {k \in 1..Len(t) : t[k] \in Labels}
    IN IF at = {} THEN t
       ELSE SubSeq(t, 1, (CHOOSE k \in at : \A j \in at : k <= j) - 1)
CommasOf(t) == {k \in 1..Len(t) : t[k] = COMMA}
C7_FirstTwoParts ==
    fnPc = 1 =>
        LET body == strip(BeforeLabel(strip(fnIn)))
            cs == CommasOf(body)
        IN IF cs = {} THEN fnOut = body
           ELSE LET c1 == CHOOSE k \in cs : \A j \in cs : k <= j
                    later == cs \ {c1}
                    c2 == IF later = {} THEN Len(body) + 1
                          ELSE CHOOSE k \in later : \A j \in later : k <= j
                IN fnOut = strip(SubSeq(body, 1, c1 - 1)) \o <<COMMA, SP>>
                              \o strip(SubSeq(body, c1 + 1, c2 - 1))

C7_Witness ==
    /\ fnPc = 1
    /\ fnIn = <<"Springfield", COMMA, SP, "Illinois", COMMA, "Died">>
    /\ Flat(fnOut) = "Springfield, Illinois"

====
